---- MODULE Spec2Model ----
(***************************************************************************)
(* The ingestion pipeline of voron-mod-hub (the parse script whose latest  *)
(* revision is src/src/components/FilterPanel.tsx lines 406-767):          *)
(*   Spec        one process run after another: main, addPreviewImages and *)
(*               its concurrent per-mod resolution tasks, the image cache, *)
(*               the snapshot, the image directory.                        *)
(*   ParseSpec   parseMods, one step per line of the fetched markdown.     *)
(*   CompatSpec  buildCompatibility applied to a compatibility cell.       *)
(*   LinkSpec    extractLink applied to a title cell.                      *)
(*   ImageSpec   extractFirstImage applied to a README.                    *)
(* and the site that renders the snapshot (src/src/pages/index.tsx):       *)
(*   HomeSpec    the Home page: search, sort, printer filters, load more.  *)
(*   PropsSpec   getStaticProps reading public/mods.json.                  *)
(* Text is modelled as TLA+ strings, read character by character.          *)
(***************************************************************************)
EXTENDS Integers, Sequences, FiniteSets, TLC

VARIABLES
  snapshot,         \* public/mods.json: [mods, lastUpdated] (lastUpdated 0: no file)
  cacheFile,        \* data/imageCache.json: [ok, json]
  imageDir,         \* the files of public/mod-images
  imageDirExists,   \* whether public/mod-images exists
  pc,               \* where main() is
  exitCode,         \* process.exitCode
  upstream,         \* the table the upstream repository holds now
  table,            \* the rows of the table this run fetched
  drafts,           \* main's drafts: the sorted DraftMod records
  imageCache,       \* main's imageCache: sourcePath -> ImageCacheEntry
  usedLocalImages,  \* addPreviewImages' usedLocalImages
  batchStart,       \* addPreviewImages' loop index i (1-based)
  tasks,            \* the per-mod async callbacks of addPreviewImages
  run,              \* how many runs have been started
  started,          \* history: the disk and the table when the run started
  fetched,          \* history: the drafts whose README this run requested
  netErr,           \* history: the drafts one of whose requests met a network error
  readmeFailed,     \* history: <<run, sourcePath, token>> of the README fetches that failed
  faults,           \* history: the operations of this run that failed
  prev,             \* history: the previous run and what happened to the disk since
  lines,            \* parseMods' lines: the markdown split into lines
  lineNo,           \* parseMods: the index of the line the loop is at (1-based)
  inTable,          \* parseMods' inTable
  lastCreator,      \* parseMods' lastCreator
  mods,             \* parseMods' mods
  emitted,          \* history: for each record of mods, the index of its line
  ppc,              \* where parseMods is: "off", "loop" or "returned"
  cell,             \* buildCompatibility's argument
  compatibility,    \* buildCompatibility's result
  cpc,              \* where buildCompatibility is: "off", "called" or "returned"
  titleCell,        \* extractLink's argument
  linkResult,       \* extractLink's result
  lpc,              \* where extractLink is: "off", "called" or "returned"
  pageMods,         \* Home's mods prop
  search,           \* Home's search state
  selectedPrinters, \* Home's selectedPrinters state
  sortBy,           \* Home's sortBy state
  visibleCount,     \* Home's visibleCount state
  hpc,              \* where the home page is: "off" or "shown"
  markdown,         \* extractFirstImage's markdown: the README of a mod
  firstImage,       \* extractFirstImage's result
  ipc,              \* where extractFirstImage is: "off", "called" or "returned"
  modsFile,         \* public/mods.json as getStaticProps finds it: [kind, raw]
  clock,            \* the wall clock
  calledAt,         \* history: the clock when modsPayload was initialised
  modsPayload,      \* getStaticProps' modsPayload
  props,            \* the props getStaticProps returns
  gpc               \* where getStaticProps is: "off", "called", "reading", "return", "returned" or "threw"

vars == <<snapshot, cacheFile, imageDir, imageDirExists, pc, exitCode, upstream, table,
          drafts, imageCache, usedLocalImages, batchStart, tasks, run, started,
          fetched, netErr, readmeFailed, faults, prev, lines, lineNo, inTable, lastCreator, mods,
          emitted, ppc, cell, compatibility, cpc, titleCell, linkResult, lpc,
          pageMods, search, selectedPrinters, sortBy, visibleCount, hpc,
          markdown, firstImage, ipc,
          modsFile, clock, calledAt, modsPayload, props, gpc>>

diskVars == <<snapshot, cacheFile, imageDir, imageDirExists>>
histVars == <<started, fetched, netErr, readmeFailed, prev>>
parseVars == <<lines, lineNo, inTable, lastCreator, mods, emitted, ppc>>
compatVars == <<cell, compatibility, cpc>>
linkVars == <<titleCell, linkResult, lpc>>
homeVars == <<pageMods, search, selectedPrinters, sortBy, visibleCount, hpc>>
imageVars == <<markdown, firstImage, ipc>>
propsVars == <<modsFile, clock, calledAt, modsPayload, props, gpc>>
textVars == <<parseVars, compatVars, linkVars, homeVars, imageVars, propsVars>>

-----------------------------------------------------------------------------
(* Bounds *)

MaxRuns == 2
MaxHot == 2

-----------------------------------------------------------------------------
(* Values *)

None == "none"    \* undefined / null / an omitted field

IMAGE_FETCH_CONCURRENCY == 8

Paths == {"p", "q"}
Tokens == {"t1", "t2"}

\* What extractFirstImage can return for a README: a resolved remote URL.
PngUrl == "https://raw/u.png"
GifUrl == "https://raw/a.gif"
ImageUrls == {PngUrl, GifUrl}

Md5(url) == IF url = GifUrl THEN "ha" ELSE "hu"

IsGif(url) == Len(url) >= 4 /\ SubSeq(url, Len(url) - 3, Len(url)) = ".gif"

LocalPrefix == "/mod-images/"

isLocalImage(image) ==
  /\ image # None
  /\ Len(image) >= Len(LocalPrefix)
  /\ SubSeq(image, 1, Len(LocalPrefix)) = LocalPrefix

\* The file of MOD_IMAGE_DIR that a local image path names.
getLocalImagePath(image) == SubSeq(image, Len(LocalPrefix) + 1, Len(image))

fileExists(file) == imageDirExists /\ file \in imageDir

-----------------------------------------------------------------------------
(* The image cache and its JSON file *)

NullEntry == [image |-> None, lastChanged |-> None]
EmptyCache == [p \in {} |-> NullEntry]

\* Put, had the assignment dropped the other keys.
PutAlone(cache, path, entry) == [x \in {path} |-> entry]

\* cache[path] = entry
Put(cache, path, entry) ==
  [x \in DOMAIN cache \cup {path} |-> IF x = path THEN entry ELSE cache[x]]

\* JSON.stringify omits a property whose value is undefined and keeps null.
Stringify(cache) ==
  [p \in DOMAIN cache |->
     IF cache[p].lastChanged = None THEN [image |-> cache[p].image] ELSE cache[p]]

\* JSON.parse: reading the omitted property back gives undefined.
ParseJson(json) ==
  [p \in DOMAIN json |->
     IF "lastChanged" \in DOMAIN json[p]
     THEN json[p]
     ELSE [image |-> json[p].image, lastChanged |-> None]]

loadImageCache == IF cacheFile.ok THEN ParseJson(cacheFile.json) ELSE EmptyCache

NoCacheFile == [ok |-> FALSE, json |-> EmptyCache]

-----------------------------------------------------------------------------
(* The upstream table, as the records parseMods yields for it *)

TitleRank(title) ==
  CASE title = "Alpha" -> 1
    [] title = "Ext" -> 2
    [] title = "Zeta" -> 3

localeCompare(a, b) == TitleRank(a) - TitleRank(b)

RECURSIVE InsertByTitle(_, _)
InsertByTitle(sorted, x) ==
  IF sorted = <<>> THEN <<x>>
  ELSE LET last == sorted[Len(sorted)]
           front == SubSeq(sorted, 1, Len(sorted) - 1)
       IN IF localeCompare(x.title, last.title) >= 0
          THEN Append(sorted, x)
          ELSE Append(InsertByTitle(front, x), last)

\* sortByTitle without the sort.
sortByTitleUnsorted(seq) == seq

RECURSIVE sortByTitle(_)
sortByTitle(seq) ==
  IF seq = <<>> THEN <<>>
  ELSE InsertByTitle(sortByTitle(SubSeq(seq, 1, Len(seq) - 1)), seq[Len(seq)])

\* A row whose link is external: no sourcePath.
ExternalRow == [title |-> "Ext", sourcePath |-> None, lastChanged |-> "t1"]

Externals == [k \in 1..(IMAGE_FETCH_CONCURRENCY - 1) |-> ExternalRow]

\* A row whose link is a path of the upstream repository.
HotRow(title, path, token) ==
  [title |-> title, sourcePath |-> path, lastChanged |-> token]

\* A table of n rows with a sourcePath: the first of them before and the others
\* after a block of external rows. With split, the first one's title sorts after
\* the external rows' and the others' before.
TablesOf(n) ==
  IF n = 0 THEN {Externals}
  ELSE { <<HotRow(IF split THEN "Zeta" ELSE "Alpha", "p", "t1")>> \o Externals
           \o [k \in 1..(n - 1) |-> HotRow("Alpha", h[k].path, h[k].token)] :
         h \in [1..(n - 1) -> [path : Paths, token : Tokens]],
         split \in IF n = 1 THEN {FALSE} ELSE BOOLEAN }

\* The tables the upstream repository can hold at first (up to the names of the
\* paths and tokens: the first row's are "p" and "t1").
InitialTables == UNION { TablesOf(n) : n \in 0..MaxHot }

Hot(t) == { i \in 1..Len(t) : t[i].sourcePath # None }

RemoveAt(t, i) == SubSeq(t, 1, i - 1) \o SubSeq(t, i + 1, Len(t))

\* An edit of the upstream table: a row's last-changed cell changes, or a row goes.
EditsOf(t) ==
  ({ [t EXCEPT ![i].lastChanged = tok] : i \in Hot(t), tok \in Tokens } \ {t})
  \cup { RemoveAt(t, i) : i \in Hot(t) }

Draft(row) == [title |-> row.title, sourcePath |-> row.sourcePath,
               lastChanged |-> row.lastChanged, image |-> None]

toMod(draft) ==
  [title |-> draft.title, lastChanged |-> draft.lastChanged, image |-> draft.image,
   repoPath |-> IF draft.sourcePath # None
                THEN "printer_mods/" \o draft.sourcePath ELSE None,
   readmeUrl |-> IF draft.sourcePath # None
                 THEN "blob/" \o draft.sourcePath \o "/README.md" ELSE None]

-----------------------------------------------------------------------------
(* addPreviewImages: one task per mod of the batch *)

IdleTask == [pc |-> "idle", hasEntry |-> FALSE, entry |-> NullEntry,
             fileSeen |-> "unchecked", url |-> None, download |-> "none"]

\* cacheDecision without the comparison of the change tokens.
cacheDecisionAnyToken(cache, mod) ==
  IF mod.sourcePath \in DOMAIN cache
  THEN IF cache[mod.sourcePath].image # None
       THEN IF ~isLocalImage(cache[mod.sourcePath].image) THEN "hit" ELSE "fileCheck"
       ELSE "cachedNone"
  ELSE "miss"

\* What a task does with the cache before its first await.
cacheDecision(cache, mod) ==
  IF mod.sourcePath \in DOMAIN cache
     /\ cache[mod.sourcePath].lastChanged = mod.lastChanged
  THEN IF cache[mod.sourcePath].image # None
       THEN IF ~isLocalImage(cache[mod.sourcePath].image) THEN "hit" ELSE "fileCheck"
       ELSE "cachedNone"
  ELSE "miss"

\* The task of a mod as it stands when the batch's synchronous part has run.
startTask(cache, mod) ==
  IF mod.sourcePath = None THEN [IdleTask EXCEPT !.pc = "done"]
  ELSE LET has == mod.sourcePath \in DOMAIN cache
           e == IF has THEN cache[mod.sourcePath] ELSE NullEntry
           d == cacheDecision(cache, mod)
       IN [IdleTask EXCEPT
             !.hasEntry = has, !.entry = e,
             !.pc = CASE d = "hit" -> "done"
                      [] d = "cachedNone" -> "done"
                      [] d = "fileCheck" -> "fileCheck"
                      [] d = "miss" -> "readme"]

\* Batch, had slice(i, i + IMAGE_FETCH_CONCURRENCY) taken one mod more.
BatchOverlapping == { i \in 1..Len(drafts) : batchStart <= i /\ i <= batchStart + IMAGE_FETCH_CONCURRENCY }

\* mods.slice(i, i + IMAGE_FETCH_CONCURRENCY): the indices of the current batch.
Batch == { i \in 1..Len(drafts) : batchStart <= i /\ i < batchStart + IMAGE_FETCH_CONCURRENCY }

InFlight == { i \in DOMAIN tasks : tasks[i].pc \notin {"idle", "done", "rejected"} }

\* materializedPath, had the file kept the extension of the URL.
materializedPathGif(url) == LocalPrefix \o Md5(url) \o ".gif"

\* `/mod-images/${filename}` and filename: the md5 of the URL and ".jpg".
materializedPath(url) == LocalPrefix \o Md5(url) \o ".jpg"
materializedFile(url) == Md5(url) \o ".jpg"

\* Finish, had the task not recorded its outcome in the cache.
FinishWithoutCaching(i, image) ==
  /\ imageCache' = imageCache
  /\ drafts' = [drafts EXCEPT ![i].image = image]
  /\ usedLocalImages' = IF isLocalImage(image)
                        THEN usedLocalImages \cup {image} ELSE usedLocalImages

\* A task ends with a final image: the cache entry, the mod's image, the used set.
Finish(i, image) ==
  /\ imageCache' = Put(imageCache, drafts[i].sourcePath,
                       [image |-> image, lastChanged |-> drafts[i].lastChanged])
  /\ drafts' = [drafts EXCEPT ![i].image = image]
  /\ usedLocalImages' = IF isLocalImage(image)
                        THEN usedLocalImages \cup {image} ELSE usedLocalImages

-----------------------------------------------------------------------------
(* The runs *)

NoSnapshot == [mods |-> <<>>, lastUpdated |-> 0]

Disk == [snapshot |-> snapshot, cacheFile |-> cacheFile, imageDir |-> imageDir,
         imageDirExists |-> imageDirExists]

\* parseMods and buildCompatibility are not running.
ParseOff ==
  /\ lines = <<>>
  /\ lineNo = 1
  /\ inTable = FALSE
  /\ lastCreator = ""
  /\ mods = <<>>
  /\ emitted = <<>>
  /\ ppc = "off"

CompatOff ==
  /\ cell = ""
  /\ compatibility = None
  /\ cpc = "off"

LinkOff ==
  /\ titleCell = ""
  /\ linkResult = None
  /\ lpc = "off"

\* The home page is not shown.
HomeOff ==
  /\ pageMods = <<>>
  /\ search = ""
  /\ selectedPrinters = <<>>
  /\ sortBy = "recent"
  /\ visibleCount = 0
  /\ hpc = "off"

\* getStaticProps is not running.
PropsOff ==
  /\ modsFile = [kind |-> "missing", raw |-> ""]
  /\ clock = 0
  /\ calledAt = 0
  /\ modsPayload = None
  /\ props = None
  /\ gpc = "off"

\* extractFirstImage is not running.
ImageOff ==
  /\ markdown = ""
  /\ firstImage = None
  /\ ipc = "off"

Init ==
  /\ ParseOff
  /\ PropsOff
  /\ ImageOff
  /\ CompatOff
  /\ LinkOff
  /\ HomeOff
  /\ snapshot = NoSnapshot
  /\ cacheFile = NoCacheFile
  /\ imageDir = {}
  /\ imageDirExists = FALSE
  /\ pc = "idle"
  /\ exitCode = 0
  /\ upstream \in InitialTables
  /\ table = <<>>
  /\ drafts = <<>>
  /\ imageCache = EmptyCache
  /\ usedLocalImages = {}
  /\ batchStart = 1
  /\ tasks = <<>>
  /\ run = 0
  /\ started = Disk
  /\ fetched = {}
  /\ netErr = {}
  /\ readmeFailed = {}
  /\ faults = {}
  /\ prev = [table |-> <<>>, completed |-> FALSE, touched |-> FALSE, dirty |-> FALSE]

Stopped == pc \in {"idle", "done", "failed"} /\ InFlight = {}

\* The process is started (npm run parse): main() is called.
StartRun ==
  /\ Stopped
  /\ run < MaxRuns
  /\ run' = run + 1
  /\ pc' = "fetchReadme"
  /\ exitCode' = 0
  /\ table' = <<>>
  /\ drafts' = <<>>
  /\ imageCache' = EmptyCache
  /\ usedLocalImages' = {}
  /\ batchStart' = 1
  /\ tasks' = <<>>
  /\ started' = Disk
  /\ fetched' = {}
  /\ netErr' = {}
  /\ readmeFailed' = readmeFailed
  /\ faults' = {}
  /\ prev' = [table |-> table, completed |-> (pc = "done"),
              touched |-> prev.dirty, dirty |-> FALSE]
  /\ UNCHANGED <<textVars, diskVars, upstream>>

\* fetchReadme resolves; parseMods and the sort run in the same turn.
FetchReadmeOk ==
  /\ pc = "fetchReadme"
  /\ table' = upstream
  /\ drafts' = sortByTitle([i \in 1..Len(upstream) |-> Draft(upstream[i])])
  /\ pc' = "loadCache"
  /\ UNCHANGED <<textVars, diskVars, upstream, exitCode, imageCache, usedLocalImages, batchStart, tasks,
                 run, histVars, faults>>

\* main rejects and main().catch sets the exit code.
mainFails ==
  /\ pc' = "failed"
  /\ exitCode' = 1

\* FetchReadmeFail, had the failure handler written an empty snapshot.
FetchReadmeFailWritesEmpty ==
  /\ pc = "fetchReadme"
  /\ mainFails
  /\ faults' = faults \cup {"fetchReadme"}
  /\ snapshot' = [mods |-> <<>>, lastUpdated |-> run]
  /\ UNCHANGED <<textVars, cacheFile, imageDir, imageDirExists, upstream, table, drafts,
                 imageCache, usedLocalImages, batchStart, tasks, run, histVars>>

\* fetchReadme throws: a non-success status, or fetch itself rejects.
FetchReadmeFail ==
  /\ pc = "fetchReadme"
  /\ mainFails
  /\ faults' = faults \cup {"fetchReadme"}
  /\ UNCHANGED <<textVars, diskVars, upstream, table, drafts, imageCache, usedLocalImages, batchStart,
                 tasks, run, histVars>>

LoadImageCache ==
  /\ pc = "loadCache"
  /\ imageCache' = loadImageCache
  /\ pc' = "ensureDir"
  /\ UNCHANGED <<textVars, diskVars, exitCode, upstream, table, drafts, usedLocalImages, batchStart,
                 tasks, run, histVars, faults>>

\* addPreviewImages up to its loop: ensureImageDir.
EnsureImageDir ==
  /\ pc = "ensureDir"
  /\ imageDirExists' = TRUE
  /\ tasks' = [i \in 1..Len(drafts) |-> IdleTask]
  /\ batchStart' = 1
  /\ usedLocalImages' = {}
  /\ pc' = IF Len(drafts) = 0 THEN "writeSnapshot" ELSE "resolving"
  /\ UNCHANGED <<textVars, snapshot, cacheFile, imageDir, exitCode, upstream, table, drafts, imageCache,
                 run, histVars, faults>>

\* batch.map(async (mod) => ...): every callback of the batch runs to its first await.
StartBatch ==
  /\ pc = "resolving"
  /\ Batch # {}
  /\ \A i \in Batch : tasks[i].pc = "idle"
  /\ tasks' = [i \in DOMAIN tasks |->
                 IF i \in Batch THEN startTask(imageCache, drafts[i]) ELSE tasks[i]]
  /\ drafts' = [i \in DOMAIN drafts |->
                  IF /\ i \in Batch
                     /\ drafts[i].sourcePath # None
                     /\ cacheDecision(imageCache, drafts[i]) = "hit"
                  THEN [drafts[i] EXCEPT !.image = imageCache[drafts[i].sourcePath].image]
                  ELSE drafts[i]]
  /\ fetched' = fetched \cup { i \in Batch : tasks'[i].pc = "readme" }
  /\ UNCHANGED <<textVars, diskVars, pc, exitCode, upstream, table, imageCache, usedLocalImages,
                 batchStart, run, started, netErr, readmeFailed, prev, faults>>

\* await Promise.all(...) resolves; the loop goes on or addPreviewImages returns
\* and main builds the payload and calls writeFile.
EndBatch ==
  /\ pc = "resolving"
  /\ Batch # {}
  /\ \A i \in Batch : tasks[i].pc = "done"
  /\ batchStart' = batchStart + IMAGE_FETCH_CONCURRENCY
  /\ pc' = IF batchStart + IMAGE_FETCH_CONCURRENCY > Len(drafts)
           THEN "writeSnapshot" ELSE "resolving"
  /\ UNCHANGED <<textVars, diskVars, exitCode, upstream, table, drafts, imageCache, usedLocalImages,
                 tasks, run, histVars, faults>>

\* fileExists(getLocalImagePath(cacheEntry.image)) settles: the cached local image
\* is reused when its file is there; otherwise fetchPreviewImage is called.
TaskFileExists(i) ==
  /\ tasks[i].pc = "fileCheck"
  /\ IF fileExists(getLocalImagePath(tasks[i].entry.image))
     THEN /\ drafts' = [drafts EXCEPT ![i].image = tasks[i].entry.image]
          /\ usedLocalImages' = usedLocalImages \cup {tasks[i].entry.image}
          /\ tasks' = [tasks EXCEPT ![i].pc = "done", ![i].fileSeen = "present"]
          /\ UNCHANGED fetched
     ELSE /\ tasks' = [tasks EXCEPT ![i].pc = "readme", ![i].fileSeen = "missing"]
          /\ fetched' = fetched \cup {i}
          /\ UNCHANGED <<drafts, usedLocalImages>>
  /\ UNCHANGED <<textVars, diskVars, pc, exitCode, upstream, table, imageCache, batchStart, run,
                 started, netErr, readmeFailed, prev, faults>>

\* What the README request of fetchPreviewImage can come to: fetch rejects, a
\* non-success status, or a document, for which extractFirstImage finds no image
\* or the resolved URL of one.
ReadmeOutcomes == {"neterr", "notok", None} \cup ImageUrls

\* fetchPreviewImage settles; without an image the task records "no image", with
\* one it calls maybeMaterializeImage, which returns at once unless the URL is a gif.
TaskReadme(i) ==
  /\ tasks[i].pc = "readme"
  /\ \E outcome \in ReadmeOutcomes :
       /\ netErr' = IF outcome = "neterr" THEN netErr \cup {i} ELSE netErr
       /\ readmeFailed' = IF outcome \in {"neterr", "notok"}
                          THEN readmeFailed \cup
                                 {<<run, drafts[i].sourcePath, drafts[i].lastChanged>>}
                          ELSE readmeFailed
       /\ IF outcome \notin ImageUrls
          THEN /\ imageCache' = Put(imageCache, drafts[i].sourcePath,
                                    [image |-> None, lastChanged |-> drafts[i].lastChanged])
               /\ tasks' = [tasks EXCEPT ![i].pc = "done"]
               /\ UNCHANGED <<drafts, usedLocalImages>>
          ELSE IF ~IsGif(outcome)
          THEN /\ Finish(i, outcome)
               /\ tasks' = [tasks EXCEPT ![i].pc = "done", ![i].url = outcome]
          ELSE /\ tasks' = [tasks EXCEPT ![i].pc = "gifCheck", ![i].url = outcome]
               /\ UNCHANGED <<imageCache, drafts, usedLocalImages>>
  /\ UNCHANGED <<textVars, diskVars, pc, exitCode, upstream, table, batchStart, run, started, fetched,
                 prev, faults>>

\* maybeMaterializeImage: fileExists(localPath) settles.
TaskGifExists(i) ==
  /\ tasks[i].pc = "gifCheck"
  /\ IF fileExists(materializedFile(tasks[i].url))
     THEN /\ Finish(i, materializedPath(tasks[i].url))
          /\ tasks' = [tasks EXCEPT ![i].pc = "done"]
     ELSE /\ tasks' = [tasks EXCEPT ![i].pc = "download"]
          /\ UNCHANGED <<imageCache, drafts, usedLocalImages>>
  /\ UNCHANGED <<textVars, diskVars, pc, exitCode, upstream, table, batchStart, run, histVars, faults>>

\* What downloadBuffer and the conversion can come to: fetch rejects, a
\* non-success status, sharp or writeFile throws, or the file is written.
DownloadOutcomes == {"neterr", "notok", "convertFails", "written"}

\* What maybeMaterializeImage does when downloadBuffer's fetch rejects.
downloadRejected(i) ==
  /\ tasks' = [tasks EXCEPT ![i].pc = "rejected", ![i].download = "failed"]
  /\ netErr' = netErr \cup {i}
  /\ UNCHANGED readmeFailed
  /\ faults' = faults \cup {"download"}
  /\ IF pc = "resolving" THEN mainFails ELSE UNCHANGED <<pc, exitCode>>
  /\ UNCHANGED <<imageCache, drafts, usedLocalImages, imageDir>>

\* maybeMaterializeImage from downloadBuffer on. downloadBuffer is called
\* outside the try block: when its fetch rejects, the task rejects, Promise.all
\* rejects and main fails, while the batch's other tasks run on.
TaskDownload(i) ==
  /\ tasks[i].pc = "download"
  /\ \E outcome \in DownloadOutcomes :
       IF outcome = "neterr"
       THEN downloadRejected(i)
       ELSE /\ Finish(i, IF outcome = "written"
                         THEN materializedPath(tasks[i].url) ELSE tasks[i].url)
            /\ tasks' = [tasks EXCEPT ![i].pc = "done",
                                       ![i].download = IF outcome = "written"
                                                       THEN "written" ELSE "failed"]
            /\ imageDir' = IF outcome = "written"
                           THEN imageDir \cup {materializedFile(tasks[i].url)}
                           ELSE imageDir
            /\ UNCHANGED <<pc, exitCode, netErr, readmeFailed, faults>>
  /\ UNCHANGED <<textVars, snapshot, cacheFile, imageDirExists, upstream, table, batchStart, run,
                 started, fetched, prev>>

\* fs.writeFile(outputPath, ...) of main settles.
WriteSnapshot ==
  /\ pc = "writeSnapshot"
  /\ snapshot' = [mods |-> [i \in DOMAIN drafts |-> toMod(drafts[i])],
                  lastUpdated |-> run]
  /\ pc' = "saveCache"
  /\ UNCHANGED <<textVars, cacheFile, imageDir, imageDirExists, exitCode, upstream, table, drafts,
                 imageCache, usedLocalImages, batchStart, tasks, run, histVars,
                 faults>>

WriteSnapshotFails ==
  /\ pc = "writeSnapshot"
  /\ mainFails
  /\ faults' = faults \cup {"writeSnapshot"}
  /\ UNCHANGED <<textVars, diskVars, upstream, table, drafts, imageCache, usedLocalImages, batchStart,
                 tasks, run, histVars>>

\* saveImageCache, had main awaited it before writing the snapshot.
saveImageCacheFirst ==
  /\ pc = "writeSnapshot"
  /\ cacheFile' = [ok |-> TRUE, json |-> Stringify(imageCache)]
  /\ UNCHANGED <<textVars, snapshot, imageDir, imageDirExists, pc, exitCode, upstream, table, drafts,
                 imageCache, usedLocalImages, batchStart, tasks, run, histVars,
                 faults>>

saveImageCache ==
  /\ pc = "saveCache"
  /\ cacheFile' = [ok |-> TRUE, json |-> Stringify(imageCache)]
  /\ pc' = "cleanup"
  /\ UNCHANGED <<textVars, snapshot, imageDir, imageDirExists, exitCode, upstream, table, drafts,
                 imageCache, usedLocalImages, batchStart, tasks, run, histVars,
                 faults>>

\* mkdir or writeFile of saveImageCache throws: main rejects after the snapshot
\* has been written.
saveImageCacheFails ==
  /\ pc = "saveCache"
  /\ mainFails
  /\ faults' = faults \cup {"saveImageCache"}
  /\ UNCHANGED <<textVars, diskVars, upstream, table, drafts, imageCache, usedLocalImages, batchStart,
                 tasks, run, histVars>>

\* Unused, had cleanup taken every file of the directory for unused.
UnusedAll == imageDir

\* The files of the directory whose /mod-images/ path usedImages does not hold.
Unused == { f \in imageDir : (LocalPrefix \o f) \notin usedLocalImages }

\* toUnlink with the test of usedImages.has inverted.
toUnlinkUsed == imageDir \ Unused

\* The files cleanupUnusedLocalImages unlinks when nothing fails.
toUnlink == Unused

cleanupUnusedLocalImages ==
  /\ pc = "cleanup"
  /\ imageDir' = imageDir \ toUnlink
  /\ pc' = "done"
  /\ UNCHANGED <<textVars, snapshot, cacheFile, imageDirExists, exitCode, upstream, table, drafts,
                 imageCache, usedLocalImages, batchStart, tasks, run, histVars,
                 faults>>

\* readdir or an unlink throws: the error is caught and logged, files stay.
cleanupFails ==
  /\ pc = "cleanup"
  /\ \E kept \in (SUBSET toUnlink) \ {{}} :
       imageDir' = imageDir \ (toUnlink \ kept)
  /\ faults' = faults \cup {"cleanup"}
  /\ pc' = "done"
  /\ UNCHANGED <<textVars, snapshot, cacheFile, imageDirExists, exitCode, upstream, table, drafts,
                 imageCache, usedLocalImages, batchStart, tasks, run, histVars>>

\* Between two runs: a file of the image directory is removed by someone else.
EnvRemovesImage ==
  /\ Stopped
  /\ 0 < run /\ run < MaxRuns
  /\ \E f \in imageDir : imageDir' = imageDir \ {f}
  /\ prev' = [prev EXCEPT !.dirty = TRUE]
  /\ UNCHANGED <<textVars, snapshot, cacheFile, imageDirExists, pc, exitCode, upstream, table, drafts,
                 imageCache, usedLocalImages, batchStart, tasks, run, started,
                 fetched, netErr, readmeFailed, faults>>

\* Between two runs: the upstream table is edited.
EnvEditsUpstream ==
  /\ Stopped
  /\ 0 < run /\ run < MaxRuns
  /\ upstream = table
  /\ upstream' \in EditsOf(upstream)
  /\ UNCHANGED <<textVars, diskVars, pc, exitCode, table, drafts, imageCache, usedLocalImages,
                 batchStart, tasks, run, histVars, faults>>

Next ==
  \/ StartRun
  \/ FetchReadmeOk
  \/ FetchReadmeFail
  \/ LoadImageCache
  \/ EnsureImageDir
  \/ StartBatch
  \/ EndBatch
  \/ \E i \in DOMAIN tasks : TaskFileExists(i)
  \/ \E i \in DOMAIN tasks : TaskReadme(i)
  \/ \E i \in DOMAIN tasks : TaskGifExists(i)
  \/ \E i \in DOMAIN tasks : TaskDownload(i)
  \/ WriteSnapshot
  \/ WriteSnapshotFails
  \/ saveImageCache
  \/ saveImageCacheFails
  \/ cleanupUnusedLocalImages
  \/ cleanupFails
  \/ EnvRemovesImage
  \/ EnvEditsUpstream

Spec == Init /\ [][Next]_vars

-----------------------------------------------------------------------------
(* Claims about the runs *)

Decided(i) == tasks[i].pc \notin {"idle", "fileCheck"}

\* The reuse condition as claim C1 words it, on what the task saw.
Reusable(i) ==
  /\ tasks[i].hasEntry
  /\ tasks[i].entry.lastChanged = drafts[i].lastChanged
  /\ \/ tasks[i].entry.image = None
     \/ ~isLocalImage(tasks[i].entry.image)
     \/ tasks[i].fileSeen = "present"

\* C1: for a mod with a sourcePath, the README is not requested in the run if
\* and only if the cache held an entry for its path whose lastChanged equals the
\* mod's and whose image is none, a remote URL, or a local path whose file was
\* found on disk; in every other case the README is requested.
C1_ReuseIffValidEntry ==
  \A i \in DOMAIN tasks :
    (Decided(i) /\ drafts[i].sourcePath # None) => ((i \notin fetched) <=> Reusable(i))

\* A mod whose entry matches its token and names a local file that is gone: re-resolved.
C1_Witness ==
  \E i \in DOMAIN tasks :
    /\ tasks[i].pc = "done"
    /\ tasks[i].hasEntry
    /\ tasks[i].entry.lastChanged = drafts[i].lastChanged
    /\ tasks[i].fileSeen = "missing"
    /\ i \in fetched

\* C2: in a run that follows a completed run over the same table, with the disk
\* untouched in between, no README is requested.
C2_SecondRunFetchesNothing ==
  (run >= 2 /\ prev.completed /\ ~prev.touched /\ table = prev.table /\ table # <<>>)
    => fetched = {}

Referenced(f) ==
  \E i \in DOMAIN snapshot.mods : snapshot.mods[i].image = LocalPrefix \o f

C4_NetworkErrorDegrades ==
  (Stopped /\ netErr # {} /\ faults \subseteq {"download"}) =>
    /\ pc = "done"
    /\ snapshot.lastUpdated = run
    /\ \A i \in netErr : snapshot.mods[i].image = None

\* C5: a run that ends in failure leaves the snapshot it found.
C5_FailedRunKeepsSnapshot ==
  (pc = "failed" /\ exitCode = 1) => snapshot = started.snapshot

\* C6: when the fetch of the table document fails, the run ends with exit code 1
\* and the snapshot, the cache file and the image directory are as it found them.
C6_PrimaryFetchFailureWritesNothing ==
  ("fetchReadme" \in faults /\ ~prev.dirty) =>
    /\ pc = "failed"
    /\ exitCode = 1
    /\ Disk = started

\* The table fetch of a second run fails, with a snapshot, a cache file and an
\* image file on disk.
C6_Witness ==
  /\ "fetchReadme" \in faults
  /\ snapshot # NoSnapshot
  /\ cacheFile.ok
  /\ imageDir # {}

-----------------------------------------------------------------------------
\* The rows of a table in title order: title by title, the rows of one title in
\* table order.
TitleOrder(t) ==
  LET titled(r) == SelectSeq(t, LAMBDA row : TitleRank(row.title) = r)
  IN titled(1) \o titled(2) \o titled(3)

\* The snapshot of this run has been written.
SnapshotWritten == run > 0 /\ snapshot.lastUpdated = run

\* C11: the mods of the written snapshot are the parsed records in title order,
\* whatever the interleaving and the completion order of the image resolutions.
C11_SnapshotInTitleOrder ==
  SnapshotWritten =>
    LET expected == TitleOrder(table)
    IN /\ Len(snapshot.mods) = Len(expected)
       /\ \A i \in 1..Len(expected) :
            /\ snapshot.mods[i].title = expected[i].title
            /\ snapshot.mods[i].lastChanged = expected[i].lastChanged
            /\ snapshot.mods[i].repoPath =
                 IF expected[i].sourcePath = None THEN None
                 ELSE "printer_mods/" \o expected[i].sourcePath

\* A snapshot written for a table whose first row sorts last, after READMEs were
\* requested in the first and in the second batch.
C11_Witness ==
  /\ SnapshotWritten
  /\ table[1].title = "Zeta"
  /\ \E i, j \in fetched : i <= IMAGE_FETCH_CONCURRENCY /\ j > IMAGE_FETCH_CONCURRENCY
-----------------------------------------------------------------------------

\* C14: within one run no two resolution tasks request the README for (and so
\* write the cache entry of) the same sourcePath.
C14_OneTaskPerSourcePath ==
  \A i, j \in fetched : i # j => drafts[i].sourcePath # drafts[j].sourcePath

\* C15: at every moment the in-flight image resolutions belong to one batch of
\* at most IMAGE_FETCH_CONCURRENCY consecutive mods, and a resolution has
\* started only when every resolution of the earlier batches has completed.
BatchOf(i) == (i - 1) \div IMAGE_FETCH_CONCURRENCY

C15_OneBatchInFlight ==
  /\ \A i, j \in InFlight : BatchOf(i) = BatchOf(j)
  /\ \A j \in DOMAIN tasks :
       tasks[j].pc # "idle" =>
         \A i \in DOMAIN tasks : BatchOf(i) < BatchOf(j) => tasks[i].pc = "done"

C15_Witness ==
  /\ \E j \in InFlight : BatchOf(j) = 1
  /\ \E i \in fetched : BatchOf(i) = 0

\* C16: the snapshot of a run is written only when every image resolution of
\* every batch has completed, and a run that failed during fetching, parsing or
\* resolution has written nothing: no snapshot, no cache file, no image file.
C16_CompleteSnapshotOrNoOutput ==
  /\ SnapshotWritten => \A i \in DOMAIN tasks : tasks[i].pc = "done"
  /\ (pc = "failed" /\ faults \cap {"fetchReadme", "download"} # {}) =>
       /\ snapshot = started.snapshot
       /\ cacheFile = started.cacheFile
       /\ imageDir \subseteq started.imageDir

\* C17: when the download or the transcoding of a mod's gif has failed, the
\* task has completed with the resolved remote URL as the mod's image and as the
\* cached image of its sourcePath, and main has not failed over it.
C17_FailedGifFallsBackToUrl ==
  \A i \in DOMAIN tasks :
    tasks[i].download = "failed" =>
      /\ tasks[i].pc = "done"
      /\ drafts[i].image = tasks[i].url
      /\ imageCache[drafts[i].sourcePath].image = tasks[i].url
      /\ ~(pc = "failed" /\ faults = {"download"})

\* The resolution of mod i came to nothing: its README could not be fetched or
\* showed no image, or the download or the transcoding of its gif failed.
Degraded(i) ==
  \/ i \in fetched /\ tasks[i].pc = "done" /\ tasks[i].url = None
  \/ tasks[i].download = "failed"

\* C18: when the resolution of a mod came to nothing (and nothing but
\* resolutions failed), the run completes, the snapshot is written and that mod
\* has no image in it.
C18_DegradedModHasNoImage ==
  \A i \in DOMAIN tasks :
    (Stopped /\ Degraded(i) /\ faults \subseteq {"download"}) =>
      /\ pc = "done"
      /\ snapshot.lastUpdated = run
      /\ snapshot.mods[i].image = None

C23_MaterializedNameIsHashOfUrl ==
  [][\A i \in DOMAIN tasks :
       (/\ i \in DOMAIN tasks'
        /\ tasks[i].pc \in {"readme", "gifCheck", "download"}
        /\ tasks'[i].pc = "done"
        /\ tasks'[i].url # None) =>
         LET url == tasks'[i].url
             name == Md5(url) \o ".jpg"
         IN /\ ~IsGif(url) =>
                 /\ drafts'[i].image = url
                 /\ tasks'[i].download = "none"
                 /\ imageDir' = imageDir
            /\ tasks'[i].download = "written" =>
                 /\ drafts'[i].image = "/mod-images/" \o name
                 /\ imageDir' = imageDir \cup {name}
            /\ (IsGif(url) /\ tasks'[i].download = "none") =>
                 /\ drafts'[i].image = "/mod-images/" \o name
                 /\ name \in imageDir
                 /\ imageDir' = imageDir]_vars

\* In the second run one mod's gif was downloaded and transcoded and another
\* mod's resolution of the same URL found the file.
C23_Witness ==
  \E i, j \in DOMAIN tasks :
    /\ i # j
    /\ tasks[i].url = tasks[j].url
    /\ tasks[i].download = "written"
    /\ tasks[j].download = "none" /\ tasks[j].pc = "done"
    /\ drafts[i].image = drafts[j].image
    /\ isLocalImage(drafts[j].image)
    /\ run = 2

\* The files the local image paths of the written snapshot name.
SnapshotFiles ==
  { getLocalImagePath(snapshot.mods[i].image) :
      i \in { k \in DOMAIN snapshot.mods : isLocalImage(snapshot.mods[k].image) } }

\* C24: the step in which cleanup finishes deletes no file that a mod of the
\* snapshot this run wrote references, and leaves every such file in the image
\* directory.
C24_CleanupKeepsReferencedFiles ==
  [][(pc = "cleanup" /\ pc' = "done") =>
       /\ snapshot'.lastUpdated = run
       /\ (imageDir \ imageDir') \cap SnapshotFiles' = {}
       /\ SnapshotFiles' \subseteq imageDir']_vars

\* A second run has completed: a mod of its snapshot holds the local image the
\* cache gave it, the file was found, and cleanup has left it in place.
C24_Witness ==
  /\ pc = "done"
  /\ run = 2
  /\ snapshot.lastUpdated = run
  /\ \E i \in DOMAIN tasks :
       /\ tasks[i].fileSeen = "present"
       /\ isLocalImage(snapshot.mods[i].image)
       /\ getLocalImagePath(snapshot.mods[i].image) \in imageDir

\* C25: a mod whose README fetch failed in the run before, a run that completed
\* and saved the cache, and whose change token is what it was then, is resolved
\* without a README request and has no image.
C25_FailedFetchNotRetried ==
  \A i \in DOMAIN tasks :
    (/\ prev.completed
     /\ <<run - 1, drafts[i].sourcePath, drafts[i].lastChanged>> \in readmeFailed) =>
      /\ i \notin fetched
      /\ drafts[i].image = None

\* C26: in a run the cache file is saved only when the run's snapshot has been
\* written, image files are deleted only when, after that, the cache has been
\* saved, and outside these two steps a run neither changes the cache file nor
\* deletes an image file.
C26_SnapshotThenCacheThenCleanup ==
  [][/\ (pc = "saveCache" /\ pc' = "cleanup") =>
          /\ snapshot.lastUpdated = run
          /\ cacheFile' = [ok |-> TRUE, json |-> Stringify(imageCache)]
     /\ cacheFile' # cacheFile =>
          pc = "saveCache" /\ snapshot.lastUpdated = run
     /\ (~Stopped /\ imageDir \ imageDir' # {}) =>
          /\ pc = "cleanup"
          /\ snapshot.lastUpdated = run
          /\ cacheFile = [ok |-> TRUE, json |-> Stringify(imageCache)]]_vars

\* A second run has written its snapshot, saved a changed cache and deleted the
\* image file the first run left.
C26_Witness ==
  /\ pc = "done"
  /\ run = 2
  /\ snapshot.lastUpdated = run
  /\ cacheFile # started.cacheFile
  /\ started.imageDir \ imageDir # {}
  /\ ~prev.dirty

\* The paths the rows of the fetched table link.
TablePaths == { table[i].sourcePath : i \in DOMAIN table }

\* The entries the cache file holds (none when it cannot be read).
FileEntries(file) == IF file.ok THEN ParseJson(file.json) ELSE EmptyCache

\* C27: within a run no step takes a key out of the image cache or changes the
\* entry of a path that no row of the table links, and the step that saves the
\* cache leaves in the file every key the file held, with the entry unchanged
\* for each path that no row links.
C27_CacheKeysNeverRemoved ==
  [][/\ (run' = run /\ pc # "loadCache") =>
          \A p \in DOMAIN imageCache :
            /\ p \in DOMAIN imageCache'
            /\ p \notin TablePaths => imageCache'[p] = imageCache[p]
     /\ (pc = "saveCache" /\ pc' = "cleanup") =>
          \A p \in DOMAIN FileEntries(cacheFile) :
            /\ p \in DOMAIN FileEntries(cacheFile')
            /\ p \notin TablePaths =>
                 FileEntries(cacheFile')[p] = FileEntries(cacheFile)[p]]_vars

\* A completed run over a table that no longer links a path: the saved cache
\* still holds the path's entry, whose local image file cleanup has deleted.
C27_Witness ==
  /\ pc = "done"
  /\ faults = {}
  /\ \E p \in DOMAIN FileEntries(cacheFile) :
       LET image == FileEntries(cacheFile)[p].image
       IN /\ p \notin TablePaths
          /\ FileEntries(started.cacheFile)[p] = FileEntries(cacheFile)[p]
          /\ isLocalImage(image)
          /\ getLocalImagePath(image) \in started.imageDir
          /\ getLocalImagePath(image) \notin imageDir

-----------------------------------------------------------------------------
(* Text: the string operations the parser uses *)

MaxLines == 4
MaxTokens == 2

CharAt(s, i) == SubSeq(s, i, i)
\* s.slice(i - 1)
Rest(s, i) == SubSeq(s, i, Len(s))
Least(S) == CHOOSE x \in S : \A y \in S : x <= y
Greatest(S) == CHOOSE x \in S : \A y \in S : x >= y

\* White space as String.prototype.trim and \s see it (space and tab here).
IsSpace(c) == c \in {" ", "\t"}

RECURSIVE trimStart(_)
trimStart(s) ==
  IF Len(s) > 0 /\ IsSpace(CharAt(s, 1)) THEN trimStart(Rest(s, 2)) ELSE s

RECURSIVE trimEnd(_)
trimEnd(s) ==
  IF Len(s) > 0 /\ IsSpace(CharAt(s, Len(s))) THEN trimEnd(SubSeq(s, 1, Len(s) - 1)) ELSE s

trim(s) == trimEnd(trimStart(s))

startsWith(s, prefix) == Len(s) >= Len(prefix) /\ SubSeq(s, 1, Len(prefix)) = prefix

\* The first index >= from of a character of chars in s, 0 when there is none.
indexOf(s, chars, from) ==
  LET hits == {i \in from..Len(s) : CharAt(s, i) \in chars}
  IN IF hits = {} THEN 0 ELSE Least(hits)

\* s.split(separator): the pieces between the separator characters.
RECURSIVE split(_, _)
split(s, seps) ==
  LET i == indexOf(s, seps, 1)
  IN IF i = 0 THEN <<s>> ELSE <<SubSeq(s, 1, i - 1)>> \o split(Rest(s, i + 1), seps)

\* array.slice(1, -1)
slice(pieces) == SubSeq(pieces, 2, Len(pieces) - 1)

UpperCase == "ABCDEFGHIJKLMNOPQRSTUVWXYZ"
LowerCase == "abcdefghijklmnopqrstuvwxyz"

lowerOf(c) ==
  LET at == {i \in 1..Len(UpperCase) : CharAt(UpperCase, i) = c}
  IN IF at = {} THEN c ELSE CharAt(LowerCase, Least(at))

RECURSIVE toLowerCase(_)
toLowerCase(s) == IF s = "" THEN "" ELSE lowerOf(CharAt(s, 1)) \o toLowerCase(Rest(s, 2))

\* isExternal as a test of the first four characters only.
isExternalByPrefix(s) == startsWith(s, "http")

\* /^https?:\/\//i.test(s)
isExternal(s) ==
  LET head == toLowerCase(SubSeq(s, 1, IF Len(s) < 8 THEN Len(s) ELSE 8))
  IN startsWith(head, "http://") \/ startsWith(head, "https://")

-----------------------------------------------------------------------------
(* buildCompatibility *)

\* The flags of CompatibilityFlag: the check mark, the cross and the question mark.
Supported == "supported"
Unsupported == "unsupported"
Unknown == "unknown"

PRINTER_SYNONYMS_V0Short ==
  [v0      |-> {"V0", "V0.0", "V0.2", "V0.2r1"},
   v0_1    |-> {"V0.1"},
   v1_8    |-> {"V1.8", "V1"},
   v2_4    |-> {"V2.4", "V2.4r2"},
   trident |-> {"VT", "Trident", "Voron Trident"}]

PRINTER_SYNONYMS ==
  [v0      |-> {"V0", "V0.0", "V0.1", "V0.2", "V0.2r1"},
   v0_1    |-> {"V0.1"},
   v1_8    |-> {"V1.8", "V1"},
   v2_4    |-> {"V2.4", "V2.4r2"},
   trident |-> {"VT", "Trident", "Voron Trident"}]

DEFAULT_COMPATIBILITY_Unknown ==
  [v0 |-> Unknown, v0_1 |-> Unknown, v1_8 |-> Unknown, v2_4 |-> Unknown, trident |-> Unknown]

DEFAULT_COMPATIBILITY ==
  [v0 |-> Unsupported, v0_1 |-> Unsupported, v1_8 |-> Unsupported, v2_4 |-> Unsupported,
   trident |-> Unsupported]

\* cell.split(/[,/]/).map(trim).filter(Boolean)
normalized(c) ==
  LET pieces == split(c, {",", "/"})
      trimmed == [i \in 1..Len(pieces) |-> trim(pieces[i])]
  IN SelectSeq(trimmed, LAMBDA token : token # "")

buildCompatibility(c) ==
  LET tokens == normalized(c)
  IN [key \in DOMAIN PRINTER_SYNONYMS |->
        IF \E i \in 1..Len(tokens) : tokens[i] \in PRINTER_SYNONYMS[key]
        THEN Supported
        ELSE DEFAULT_COMPATIBILITY[key]]

-----------------------------------------------------------------------------
(* extractLink and sanitizeDescription *)

MOD_BASE_URL == "https://github.com/VoronDesign/VoronUsers/tree/master/printer_mods"

NoMatch == <<>>

\* The match of /\[([^\]]+)\]\(([^)]+)\)/ that starts at index i of s: the two
\* groups, or NoMatch.
linkMatchAt(s, i) ==
  LET j == indexOf(s, {"]"}, i + 1)
      k == IF j = 0 THEN 0 ELSE indexOf(s, {")"}, j + 2)
  IN IF /\ CharAt(s, i) = "["
        /\ j > i + 1
        /\ j < Len(s)
        /\ CharAt(s, j + 1) = "("
        /\ k > j + 2
     THEN <<SubSeq(s, i + 1, j - 1), SubSeq(s, j + 2, k - 1)>>
     ELSE NoMatch

\* cell.match(...): the leftmost match.
linkMatch(s) ==
  LET starts == {i \in 1..Len(s) : linkMatchAt(s, i) # NoMatch}
  IN IF starts = {} THEN NoMatch ELSE linkMatchAt(s, Least(starts))

extractLink(c) ==
  LET m == linkMatch(c)
  IN IF m = NoMatch
     THEN [title |-> c, link |-> MOD_BASE_URL, sourcePath |-> None]
     ELSE LET rawLink == m[2]
              target == IF startsWith(rawLink, "./") THEN Rest(rawLink, 3) ELSE rawLink
          IN [title |-> trim(m[1]),
              link |-> IF isExternal(target) THEN target ELSE MOD_BASE_URL \o "/" \o target,
              sourcePath |-> IF isExternal(target) THEN None ELSE target]

\* text.replace(/\\n/g, " "): a backslash followed by n becomes a space.
RECURSIVE replaceEscapedNewlines(_)
replaceEscapedNewlines(s) ==
  IF Len(s) < 2 THEN s
  ELSE IF SubSeq(s, 1, 2) = "\\n"
       THEN " " \o replaceEscapedNewlines(Rest(s, 3))
       ELSE CharAt(s, 1) \o replaceEscapedNewlines(Rest(s, 2))

\* text.replace(/\s+/g, " ")
RECURSIVE collapseWhitespace(_)
collapseWhitespace(s) ==
  IF s = "" THEN ""
  ELSE IF IsSpace(CharAt(s, 1))
       THEN " " \o collapseWhitespace(trimStart(s))
       ELSE CharAt(s, 1) \o collapseWhitespace(Rest(s, 2))

sanitizeDescription(text) == trim(collapseWhitespace(replaceEscapedNewlines(text)))

-----------------------------------------------------------------------------
(* parseMods *)

HeaderLine == "| Creator | Mod title | Description | Printer compatibility | Last Changed |"
SeparatorLine == "| --- | --- | --- | --- | --- |"

\* The lines a fetched markdown is made of here.
LineSet ==
  { HeaderLine,
    SeparatorLine,
    "| ann | [Cool Mod](./ann/cool) | A  nice\\nmod. | V2.4, Trident | 2024-01-01 |",
    "|  | [Another](./ann/other) | d | V0 | 2024-02-02 |",
    "| bob | [Short](./bob/short) | d | V0.1 |",
    " | cy | [Ext](HTTPS://e.org/m) | d | VT/V1 |  |  ",
    "| dee | [Open](./dee/open) | d | V0 | 2024-03-03",
    "| eve | plain | d | Mini | x | extra |",
    "",
    "Some text." }

\* markdown.split(/\r?\n/): the inputs, as the lines they split into.
Markdowns == UNION { [1..n -> LineSet] : n \in 0..MaxLines }

isHeader(line) == startsWith(trim(line), "| Creator")
isSeparator(line) == startsWith(trim(line), "| ---")
isPipeLine(line) == startsWith(trim(line), "|")

\* line.split("|").slice(1, -1).map(trim)
Cells(line) ==
  LET pieces == slice(split(line, {"|"}))
  IN [i \in 1..Len(pieces) |-> trim(pieces[i])]

\* The record parseMods pushes for a row of at least five cells.
modOf(cells, creator) ==
  LET l == extractLink(cells[2])
  IN [creator |-> creator,
      title |-> l.title,
      description |-> sanitizeDescription(cells[3]),
      link |-> l.link,
      compatibility |-> buildCompatibility(cells[4]),
      lastChanged |-> IF cells[5] = "" THEN None ELSE cells[5],
      sourcePath |-> l.sourcePath,
      authorSlug |-> IF l.sourcePath = None THEN None ELSE split(l.sourcePath, {"/"})[1]]

\* No run is in progress (the values main starts from, with no upstream table).
RunsOff ==
  /\ snapshot = NoSnapshot
  /\ cacheFile = NoCacheFile
  /\ imageDir = {}
  /\ imageDirExists = FALSE
  /\ pc = "idle"
  /\ exitCode = 0
  /\ upstream = <<>>
  /\ table = <<>>
  /\ drafts = <<>>
  /\ imageCache = EmptyCache
  /\ usedLocalImages = {}
  /\ batchStart = 1
  /\ tasks = <<>>
  /\ run = 0
  /\ started = Disk
  /\ fetched = {}
  /\ netErr = {}
  /\ readmeFailed = {}
  /\ faults = {}
  /\ prev = [table |-> <<>>, completed |-> FALSE, touched |-> FALSE, dirty |-> FALSE]

runVars == <<diskVars, pc, exitCode, upstream, table, drafts, imageCache, usedLocalImages,
             batchStart, tasks, run, histVars, faults>>

\* parseMods(markdown) is called.
ParseInit ==
  /\ RunsOff
  /\ PropsOff
  /\ ImageOff
  /\ CompatOff
  /\ LinkOff
  /\ HomeOff
  /\ lines \in Markdowns
  /\ lineNo = 1
  /\ inTable = FALSE
  /\ lastCreator = ""
  /\ mods = <<>>
  /\ emitted = <<>>
  /\ ppc = "loop"

AtLine == ppc = "loop" /\ lineNo <= Len(lines)

\* continue
NextLine ==
  /\ lineNo' = lineNo + 1
  /\ UNCHANGED <<lines, ppc, runVars, compatVars, linkVars, homeVars, imageVars, propsVars>>

\* if (!inTable && line.trim().startsWith("| Creator")) { inTable = true; continue; }
EnterTable ==
  /\ AtLine
  /\ ~inTable /\ isHeader(lines[lineNo])
  /\ inTable' = TRUE
  /\ NextLine
  /\ UNCHANGED <<lastCreator, mods, emitted>>

\* if (!inTable) continue;
SkipBeforeTable ==
  /\ AtLine
  /\ ~inTable /\ ~isHeader(lines[lineNo])
  /\ NextLine
  /\ UNCHANGED <<inTable, lastCreator, mods, emitted>>

\* if (line.trim().startsWith("| ---")) continue;
SkipSeparator ==
  /\ AtLine
  /\ inTable /\ isSeparator(lines[lineNo])
  /\ NextLine
  /\ UNCHANGED <<inTable, lastCreator, mods, emitted>>

\* if (!line.trim().startsWith("|")) { if (inTable) break; ... }
BreakAfterTable ==
  /\ AtLine
  /\ inTable /\ ~isSeparator(lines[lineNo]) /\ ~isPipeLine(lines[lineNo])
  /\ ppc' = "returned"
  /\ UNCHANGED <<lines, lineNo, inTable, lastCreator, mods, emitted, runVars, compatVars, linkVars, homeVars, imageVars, propsVars>>

isRowLine(line) == ~isSeparator(line) /\ isPipeLine(line)

\* DropShortRow, had the length test come after the update of lastCreator.
DropShortRowAfterCreator ==
  /\ AtLine
  /\ inTable /\ isRowLine(lines[lineNo])
  /\ Len(Cells(lines[lineNo])) < 5
  /\ lastCreator' = IF Len(Cells(lines[lineNo])) > 0 /\ Cells(lines[lineNo])[1] # ""
                    THEN Cells(lines[lineNo])[1] ELSE lastCreator
  /\ NextLine
  /\ UNCHANGED <<inTable, mods, emitted>>

\* if (cells.length < 5) continue;
DropShortRow ==
  /\ AtLine
  /\ inTable /\ isRowLine(lines[lineNo])
  /\ Len(Cells(lines[lineNo])) < 5
  /\ NextLine
  /\ UNCHANGED <<inTable, lastCreator, mods, emitted>>

\* The row becomes a record; a blank creator cell takes lastCreator.
EmitMod ==
  /\ AtLine
  /\ inTable /\ isRowLine(lines[lineNo])
  /\ LET cells == Cells(lines[lineNo])
     IN /\ Len(cells) >= 5
        /\ lastCreator' = IF cells[1] # "" THEN cells[1] ELSE lastCreator
        /\ mods' = Append(mods, modOf(cells, IF cells[1] # "" THEN cells[1] ELSE lastCreator))
  /\ emitted' = Append(emitted, lineNo)
  /\ NextLine
  /\ UNCHANGED inTable

\* The loop is past the last line: return mods.
ReturnMods ==
  /\ ppc = "loop"
  /\ lineNo > Len(lines)
  /\ ppc' = "returned"
  /\ UNCHANGED <<lines, lineNo, inTable, lastCreator, mods, emitted, runVars, compatVars, linkVars, homeVars, imageVars, propsVars>>

ParseNext ==
  \/ EnterTable
  \/ SkipBeforeTable
  \/ SkipSeparator
  \/ BreakAfterTable
  \/ DropShortRow
  \/ EmitMod
  \/ ReturnMods

ParseSpec == ParseInit /\ [][ParseNext]_vars

-----------------------------------------------------------------------------
(* buildCompatibility on its own *)

CompatWords ==
  {"V0", "V0.1", "v0.1", "V0.2r1", "V1", "V1.8", "V2.4", "V2", "VT", "Trident",
   "Voron Trident", "Mini", ""}
CompatSeparators == {",", "/", ", ", " / ", " ", ";"}

RECURSIVE CellsOf(_)
CellsOf(n) ==
  IF n = 1 THEN CompatWords
  ELSE {c \o sep \o w : c \in CellsOf(n - 1), sep \in CompatSeparators, w \in CompatWords}

CompatCells == UNION {CellsOf(n) : n \in 1..MaxTokens}

\* buildCompatibility(cell) is called.
CompatInit ==
  /\ RunsOff
  /\ PropsOff
  /\ ImageOff
  /\ ParseOff
  /\ LinkOff
  /\ HomeOff
  /\ cell \in CompatCells
  /\ compatibility = None
  /\ cpc = "called"

BuildCompatibility ==
  /\ cpc = "called"
  /\ compatibility' = buildCompatibility(cell)
  /\ cpc' = "returned"
  /\ UNCHANGED <<cell, runVars, parseVars, linkVars, homeVars, imageVars, propsVars>>

CompatNext == BuildCompatibility

CompatSpec == CompatInit /\ [][CompatNext]_vars

-----------------------------------------------------------------------------
(* extractLink on its own *)

LinkTexts == {"Cool Mod", " A ", "x[y"}
LinkTargets ==
  {"./cool-mod", "ann/cool", "https://e.org/m", "HTTP://E.org", "http:/x", "httpx://a",
   "./https://e.org", "//e.org/m", "./", "/abs", "ftp://x"}

\* Title cells with a link, alone or with text around it.
LinkedCells ==
  { before \o "[" \o text \o "](" \o target \o ")" \o after :
      before \in {"", "NEW "}, text \in LinkTexts, target \in LinkTargets,
      after \in {"", " [v2](./v2)"} }

\* Title cells without the link pattern.
PlainCells == {"plain", "", "[A]", "[A]()", "[](x)", "[A] (x)", "(x)[A]", "[A](x"}

TitleCells == LinkedCells \cup PlainCells

\* extractLink(cell) is called.
LinkInit ==
  /\ RunsOff
  /\ PropsOff
  /\ ImageOff
  /\ ParseOff
  /\ CompatOff
  /\ HomeOff
  /\ titleCell \in TitleCells
  /\ linkResult = None
  /\ lpc = "called"

ExtractLink ==
  /\ lpc = "called"
  /\ linkResult' = extractLink(titleCell)
  /\ lpc' = "returned"
  /\ UNCHANGED <<titleCell, runVars, parseVars, compatVars, homeVars, imageVars, propsVars>>

LinkNext == ExtractLink

LinkSpec == LinkInit /\ [][LinkNext]_vars

-----------------------------------------------------------------------------
(* The home page: Home of pages/index.tsx *)

MaxPageMods == 50

PAGE_SIZE == 24
PRINTER_KEYS == <<"v0", "v0_1", "v1_8", "v2_4", "trident">>
SortOptions == {"title", "creator", "recent"}

\* haystack.includes(needle)
includes(haystack, needle) ==
  \E i \in 1..(Len(haystack) - Len(needle) + 1) :
    SubSeq(haystack, i, i + Len(needle) - 1) = needle

\* The kinds of mods a snapshot holds here.
PageModKinds ==
  << [title |-> "Alpha", description |-> "Cool fan duct", creator |-> "Alice",
      compatibility |-> [v0 |-> Supported, v0_1 |-> Supported, v1_8 |-> Unsupported,
                         v2_4 |-> Unsupported, trident |-> Unsupported],
      lastChanged |-> "2024-01-01"],
     [title |-> "Ext", description |-> "LED bar", creator |-> "bob",
      compatibility |-> [v0 |-> Unknown, v0_1 |-> Unsupported, v1_8 |-> Unsupported,
                         v2_4 |-> Supported, trident |-> Supported],
      lastChanged |-> "2024-02-02"],
     [title |-> "Zeta", description |-> "Alpha clone", creator |-> "Alice",
      compatibility |-> [v0 |-> Unsupported, v0_1 |-> Unsupported, v1_8 |-> Unsupported,
                         v2_4 |-> Unsupported, trident |-> Supported],
      lastChanged |-> None],
     [title |-> "Alpha", description |-> "nozzle", creator |-> "Cy",
      compatibility |-> [v0 |-> Supported, v0_1 |-> Unknown, v1_8 |-> Unsupported,
                         v2_4 |-> Unsupported, trident |-> Supported],
      lastChanged |-> "2024-01-01"] >>

\* The mods prop: the n mods of the snapshot the page was built from.
Catalog(n) == [i \in 1..n |-> PageModKinds[((i - 1) % Len(PageModKinds)) + 1]]

\* The search texts typed here, and those of the URL's q parameter.
Searches == {"", "  ", "alpha", "ALPHA", " Alice ", "duct alice", "Ext LED", "zz", "a"}
InitialSearches == {"", "zz"}

\* The printers of the URL's printers parameter, and those toggled here.
InitialPrinters == {<<>>, <<"v0">>, <<"v0", "v0">>, <<"trident", "v0">>}
ToggleKeys == {"v0", "v0_1", "trident"}

CreatorRank(creator) ==
  CASE creator = "Alice" -> 1
    [] creator = "bob" -> 2
    [] creator = "Cy" -> 3

\* new Date(lastChanged).getTime(), up to the unit
getTime(lastChanged) ==
  CASE lastChanged = "2024-01-01" -> 1
    [] lastChanged = "2024-02-02" -> 2

\* sorters[key](a, b)
sorters(key, a, b) ==
  CASE key = "title" -> localeCompare(a.title, b.title)
    [] key = "creator" -> CreatorRank(a.creator) - CreatorRank(b.creator)
    [] key = "recent" ->
         (IF b.lastChanged # None THEN getTime(b.lastChanged) ELSE 0)
         - (IF a.lastChanged # None THEN getTime(a.lastChanged) ELSE 0)

RECURSIVE InsertBy(_, _, _)
InsertBy(key, sorted, x) ==
  IF sorted = <<>> THEN <<x>>
  ELSE LET last == sorted[Len(sorted)]
           front == SubSeq(sorted, 1, Len(sorted) - 1)
       IN IF sorters(key, x, last) >= 0
          THEN Append(sorted, x)
          ELSE Append(InsertBy(key, front, x), last)

\* scoped.sort(sorters[sortBy])
RECURSIVE sortWith(_, _)
sortWith(key, seq) ==
  IF seq = <<>> THEN <<>>
  ELSE InsertBy(key, sortWith(key, SubSeq(seq, 1, Len(seq) - 1)), seq[Len(seq)])

normalizedSearch == toLowerCase(trim(search))

matchesSearch(mod) ==
  \/ normalizedSearch = ""
  \/ includes(toLowerCase(mod.title \o " " \o mod.description \o " " \o mod.creator),
              normalizedSearch)

\* matchesPrinters with some in the place of every.
matchesSomePrinter(mod) ==
  \E k \in 1..Len(selectedPrinters) : mod.compatibility[selectedPrinters[k]] = Supported

matchesPrinters(mod) ==
  \A k \in 1..Len(selectedPrinters) : mod.compatibility[selectedPrinters[k]] = Supported

\* The useMemo of filteredMods.
filteredMods ==
  sortWith(sortBy, SelectSeq(SelectSeq(pageMods, matchesSearch), matchesPrinters))

visibleMods == SubSeq(filteredMods, 1,
                      IF visibleCount < Len(filteredMods) THEN visibleCount
                      ELSE Len(filteredMods))

hasMore == visibleCount < Len(filteredMods)

\* The page is rendered in the browser: the state comes from the URL.
HomeInit ==
  /\ RunsOff
  /\ PropsOff
  /\ ImageOff
  /\ ParseOff
  /\ CompatOff
  /\ LinkOff
  /\ pageMods \in {Catalog(n) : n \in {0, 5, MaxPageMods}}
  /\ search \in InitialSearches
  /\ selectedPrinters \in InitialPrinters
  /\ sortBy \in {"recent", "creator"}
  /\ visibleCount = PAGE_SIZE
  /\ hpc = "shown"

homeFrame == <<runVars, parseVars, compatVars, linkVars, pageMods, hpc, imageVars, propsVars>>

handleSearchChange ==
  /\ hpc = "shown"
  /\ \E value \in Searches : search' = value
  /\ visibleCount' = PAGE_SIZE
  /\ UNCHANGED <<homeFrame, selectedPrinters, sortBy>>

handleSortChange ==
  /\ hpc = "shown"
  /\ \E value \in SortOptions : sortBy' = value
  /\ visibleCount' = PAGE_SIZE
  /\ UNCHANGED <<homeFrame, search, selectedPrinters>>

handleTogglePrinter ==
  /\ hpc = "shown"
  /\ \E printer \in ToggleKeys :
       selectedPrinters' =
         IF \E k \in 1..Len(selectedPrinters) : selectedPrinters[k] = printer
         THEN SelectSeq(selectedPrinters, LAMBDA item : item # printer)
         ELSE Append(selectedPrinters, printer)
  /\ visibleCount' = PAGE_SIZE
  /\ UNCHANGED <<homeFrame, search, sortBy>>

\* loadMore without Math.min.
loadMoreUncapped ==
  /\ hpc = "shown"
  /\ hasMore
  /\ visibleCount' = visibleCount + PAGE_SIZE
  /\ UNCHANGED <<homeFrame, search, selectedPrinters, sortBy>>

\* The Load more button or the sentinel coming into view; both exist only
\* while hasMore.
loadMore ==
  /\ hpc = "shown"
  /\ hasMore
  /\ visibleCount' = IF visibleCount + PAGE_SIZE < Len(filteredMods)
                     THEN visibleCount + PAGE_SIZE ELSE Len(filteredMods)
  /\ UNCHANGED <<homeFrame, search, selectedPrinters, sortBy>>

HomeNext ==
  \/ handleSearchChange
  \/ handleSortChange
  \/ handleTogglePrinter
  \/ loadMore

HomeSpec == HomeInit /\ [][HomeNext]_vars

-----------------------------------------------------------------------------
(* extractFirstImage: the first image of a mod's README *)

MaxFragments == 3

RAW_BASE_URL == "https://raw.githubusercontent.com/VoronDesign/VoronUsers/master/printer_mods"
IMAGE_EXTENSIONS == {".png", ".jpg", ".jpeg", ".gif", ".webp", ".bmp", ".svg"}

endsWith(s, suffix) ==
  Len(s) >= Len(suffix) /\ SubSeq(s, Len(s) - Len(suffix) + 1, Len(s)) = suffix

\* The characters of s from index a to index b, as far as s goes.
substring(s, a, b) == SubSeq(s, a, IF b > Len(s) THEN Len(s) ELSE b)

\* url.trim().split(/\s+/)[0]
stripTitle(url) ==
  LET t == trim(url)
      i == indexOf(t, {" ", "\t"}, 1)
  IN IF i = 0 THEN t ELSE SubSeq(t, 1, i - 1)

isValidImage(url) ==
  LET target == split(toLowerCase(url), {"?", "#"})[1]
  IN \E ext \in IMAGE_EXTENSIONS : endsWith(target, ext)

\* The path segments with "." dropped and ".." taking the segment before it.
RECURSIVE removeDotSegments(_, _)
removeDotSegments(segments, out) ==
  IF segments = <<>> THEN out
  ELSE LET seg == Head(segments)
       IN removeDotSegments(Tail(segments),
            CASE seg = "." -> out
              [] seg = ".." -> IF out = <<>> THEN out ELSE SubSeq(out, 1, Len(out) - 1)
              [] OTHER -> Append(out, seg))

RECURSIVE joinWith(_, _)
joinWith(pieces, sep) ==
  IF pieces = <<>> THEN ""
  ELSE IF Len(pieces) = 1 THEN pieces[1]
  ELSE pieces[1] \o sep \o joinWith(Tail(pieces), sep)

\* new URL(relative, base).href for a base https://host/dir/.../ and a relative
\* reference made of a path and, possibly, a query or a fragment.
hrefOf(relative, base) ==
  LET cut == indexOf(relative, {"?", "#"}, 1)
      path == IF cut = 0 THEN relative ELSE SubSeq(relative, 1, cut - 1)
      rest == IF cut = 0 THEN "" ELSE Rest(relative, cut)
      hostEnd == indexOf(base, {"/"}, Len("https://") + 1)
      origin == SubSeq(base, 1, hostEnd - 1)
      baseDir == SubSeq(base, hostEnd + 1, Len(base))
      whole == IF startsWith(path, "/") THEN Rest(path, 2) ELSE baseDir \o path
  IN origin \o "/" \o joinWith(removeDotSegments(split(whole, {"/"}), <<>>), "/") \o rest

resolveImageUrl(url, relativePath) ==
  LET cleaned == stripTitle(url)
  IN IF ~isValidImage(cleaned) THEN None
     ELSE IF isExternal(cleaned) THEN cleaned
     ELSE IF startsWith(cleaned, "//") THEN "https:" \o cleaned
     ELSE hrefOf(IF startsWith(cleaned, "./") THEN Rest(cleaned, 3) ELSE cleaned,
                 RAW_BASE_URL \o "/" \o relativePath \o "/")

\* /!\[[^\]]*\]\(([^)]+)\)/ matched at index i: the capture and the index of the
\* match's last character.
markdownImageAt(s, i) ==
  IF substring(s, i, i + 1) # "![" THEN NoMatch
  ELSE LET j == indexOf(s, {"]"}, i + 2)
           k == IF j = 0 THEN 0 ELSE indexOf(s, {")"}, j + 2)
       IN IF j > 0 /\ j < Len(s) /\ CharAt(s, j + 1) = "(" /\ k > j + 2
          THEN <<SubSeq(s, j + 2, k - 1), k>>
          ELSE NoMatch

Quotes == {"\"", "'"}

\* /<img[^>]*src=["']([^"']+)["'][^>]*>/i matched at index i: the greedy [^>]*
\* takes the last src= of the tag after which the rest matches.
htmlImageAt(s, i) ==
  IF CharAt(s, i) # "<" \/ toLowerCase(substring(s, i, i + 3)) # "<img" THEN NoMatch
  ELSE LET gt == indexOf(s, {">"}, i + 4)
           closing(p) == indexOf(s, Quotes, p + 5)
           tagEnd(p) == indexOf(s, {">"}, closing(p) + 1)
           srcs == {p \in (i + 4)..(gt - 1) :
                      /\ toLowerCase(substring(s, p, p + 4)) \in {"src=\"", "src='"}
                      /\ closing(p) > p + 5
                      /\ tagEnd(p) > 0}
       IN IF gt = 0 \/ srcs = {} THEN NoMatch
          ELSE LET p == Greatest(srcs)
               IN <<SubSeq(s, p + 5, closing(p) - 1), tagEnd(p)>>

\* markdown.matchAll(regex): the captures of the matches from index from on, one
\* match starting after the other has ended.
RECURSIVE matchAll(_, _, _)
matchAll(s, matchAt(_, _), from) ==
  LET starts == {i \in from..Len(s) : matchAt(s, i) # NoMatch}
  IN IF starts = {} THEN <<>>
     ELSE LET m == matchAt(s, Least(starts))
          IN <<m[1]>> \o matchAll(s, matchAt, m[2] + 1)

\* The first candidate that resolves, None when none does.
RECURSIVE firstResolved(_, _)
firstResolved(candidates, relativePath) ==
  IF candidates = <<>> THEN None
  ELSE LET candidate == resolveImageUrl(Head(candidates), relativePath)
       IN IF candidate # None THEN candidate
          ELSE firstResolved(Tail(candidates), relativePath)

\* extractFirstImage with the two loops in the other order.
extractFirstImageHtmlFirst(md, relativePath) ==
  LET fromHtml == firstResolved(matchAll(md, htmlImageAt, 1), relativePath)
  IN IF fromHtml # None THEN fromHtml
     ELSE firstResolved(matchAll(md, markdownImageAt, 1), relativePath)

extractFirstImage(md, relativePath) ==
  LET fromMarkdown == firstResolved(matchAll(md, markdownImageAt, 1), relativePath)
  IN IF fromMarkdown # None THEN fromMarkdown
     ELSE firstResolved(matchAll(md, htmlImageAt, 1), relativePath)

\* The sourcePath of the mod whose README is read.
RelativePath == "ann/cool"

\* Lines of a README: images in either syntax, with and without an image
\* extension, and plain text.
Fragments ==
  { "![a](img/a.png)",
    "![b](doc.txt)",
    "![c](./c.gif \"t\")",
    "![d](../d.PNG?raw=true)",
    "<img src=\"https://e.org/h.jpg\">",
    "<IMG alt='x' SRC='h.pdf'>",
    "<img width=\"9\" src='//e.org/p.webp'/>",
    "Some text." }

\* The READMEs: up to MaxFragments lines.
Readmes ==
  UNION { { joinWith(f, "\n") : f \in [1..n -> Fragments] } : n \in 0..MaxFragments }

\* extractFirstImage(markdown, relativePath) is called.
ImageInit ==
  /\ RunsOff
  /\ PropsOff
  /\ ParseOff
  /\ CompatOff
  /\ LinkOff
  /\ HomeOff
  /\ markdown \in Readmes
  /\ firstImage = None
  /\ ipc = "called"

ExtractFirstImage ==
  /\ ipc = "called"
  /\ firstImage' = extractFirstImage(markdown, RelativePath)
  /\ ipc' = "returned"
  /\ UNCHANGED <<markdown, runVars, parseVars, compatVars, linkVars, homeVars, propsVars>>

ImageNext == ExtractFirstImage

ImageSpec == ImageInit /\ [][ImageNext]_vars

-----------------------------------------------------------------------------
(* getStaticProps of pages/index.tsx: the props of the home page *)

MaxClock == 3

Undefined == "undefined"
\* The JSON values met here: null and objects, with their mods and lastUpdated.
Null == [type |-> "null", mods |-> Undefined, lastUpdated |-> Undefined]
Object(mods_, lastUpdated_) == [type |-> "object", mods |-> mods_, lastUpdated |-> lastUpdated_]
SyntaxError == [type |-> "SyntaxError", mods |-> Undefined, lastUpdated |-> Undefined]

\* The texts public/mods.json can hold: what the parse script writes, texts cut
\* short or empty (a write in progress), other JSON values, and other text.
WrittenEmpty == "{\"mods\":[],\"lastUpdated\":\"2024-01-01T00:00:00.000Z\"}"
WrittenOne == "{\"mods\":[{\"title\":\"Alpha\"}],\"lastUpdated\":\"2024-02-02T00:00:00.000Z\"}"
RawTexts ==
  { WrittenEmpty, WrittenOne, "", "{\"mods\":[{\"title\":\"Alp", "Some text.", "null", "{}" }

ModsFiles ==
  { [kind |-> "missing", raw |-> ""], [kind |-> "unreadable", raw |-> WrittenOne] }
    \cup { [kind |-> "file", raw |-> raw] : raw \in RawTexts }

\* JSON.parse(raw) for these texts: the value, or SyntaxError when it throws.
JSONParse(raw) ==
  CASE raw = WrittenEmpty -> Object(<<>>, "2024-01-01T00:00:00.000Z")
    [] raw = WrittenOne -> Object(<<[title |-> "Alpha"]>>, "2024-02-02T00:00:00.000Z")
    [] raw = "null" -> Null
    [] raw = "{}" -> Object(Undefined, Undefined)
    [] OTHER -> SyntaxError

\* next build or revalidation calls getStaticProps.
PropsInit ==
  /\ RunsOff
  /\ ParseOff
  /\ CompatOff
  /\ LinkOff
  /\ HomeOff
  /\ ImageOff
  /\ modsFile \in ModsFiles
  /\ clock = 0
  /\ calledAt = 0
  /\ modsPayload = None
  /\ props = None
  /\ gpc = "called"

propsFrame == <<runVars, parseVars, compatVars, linkVars, homeVars, imageVars, modsFile>>

\* Time passes before the call gets to run and while readFile is awaited.
Tick ==
  /\ gpc \in {"called", "reading"}
  /\ clock < MaxClock
  /\ clock' = clock + 1
  /\ UNCHANGED <<propsFrame, calledAt, modsPayload, props, gpc>>

\* let modsPayload = { mods: [], lastUpdated: new Date().toISOString() }
InitPayload ==
  /\ gpc = "called"
  /\ modsPayload' = Object(<<>>, clock)
  /\ calledAt' = clock
  /\ gpc' = "reading"
  /\ UNCHANGED <<propsFrame, clock, props>>

\* ReadAndParse, had the catch block thrown the error on.
ReadAndParseRethrows ==
  /\ gpc = "reading"
  /\ IF modsFile.kind # "file" \/ JSONParse(modsFile.raw).type = "SyntaxError"
     THEN gpc' = "threw" /\ UNCHANGED modsPayload
     ELSE gpc' = "return" /\ modsPayload' = JSONParse(modsFile.raw)
  /\ UNCHANGED <<propsFrame, clock, calledAt, props>>

\* The try block: readFile rejects, JSON.parse throws (both caught and
\* logged), or modsPayload is assigned the parsed value.
ReadAndParse ==
  /\ gpc = "reading"
  /\ modsPayload' = IF modsFile.kind # "file" \/ JSONParse(modsFile.raw).type = "SyntaxError"
                    THEN modsPayload
                    ELSE JSONParse(modsFile.raw)
  /\ gpc' = "return"
  /\ UNCHANGED <<propsFrame, clock, calledAt, props>>

\* return { props: { mods: modsPayload.mods, lastUpdated: modsPayload.lastUpdated } }:
\* reading a property of null throws a TypeError.
ReturnProps ==
  /\ gpc = "return"
  /\ IF modsPayload.type = "null"
     THEN gpc' = "threw" /\ UNCHANGED props
     ELSE /\ props' = [mods |-> modsPayload.mods, lastUpdated |-> modsPayload.lastUpdated]
          /\ gpc' = "returned"
  /\ UNCHANGED <<propsFrame, clock, calledAt, modsPayload>>

PropsNext ==
  \/ Tick
  \/ InitPayload
  \/ ReadAndParse
  \/ ReturnProps

PropsSpec == PropsInit /\ [][PropsNext]_vars

-----------------------------------------------------------------------------
(* Claims about parseMods *)

\* The index of the line that opens the table, 0 when there is none.
HeaderAt ==
  LET headers == {i \in 1..Len(lines) : isHeader(lines[i])}
  IN IF headers = {} THEN 0 ELSE Least(headers)

\* The index of the first line after the header that is not a table line.
BodyEnd ==
  LET others == {i \in (HeaderAt + 1)..Len(lines) : ~isPipeLine(lines[i])}
  IN IF others = {} THEN Len(lines) + 1 ELSE Least(others)

\* The rows of the table body: its lines other than the separator lines.
BodyRows ==
  IF HeaderAt = 0 THEN {}
  ELSE {j \in (HeaderAt + 1)..(BodyEnd - 1) : isRowLine(lines[j])}

\* The creator cell of a row: the text between its first and second "|" (or the
\* end of the line), trimmed.
CreatorCell(line) == trim(split(line, {"|"})[2])

\* The cells of a row as its text shows them: the pieces between the "|" without
\* the empty pieces at the two ends, trimmed.
RowCells(line) ==
  LET pieces == split(line, {"|"})
      first == IF trim(pieces[1]) = "" THEN 2 ELSE 1
      last == IF trim(pieces[Len(pieces)]) = "" THEN Len(pieces) - 1 ELSE Len(pieces)
  IN [i \in 1..(last - first + 1) |-> trim(pieces[first + i - 1])]

\* C7: every emitted record has the trimmed creator cell of its row when that
\* cell is non-empty, and otherwise the creator cell of the nearest preceding
\* row of the table whose creator cell is non-empty.
C7_CreatorOfNearestNamedRow ==
  \A k \in 1..Len(mods) :
    LET r == emitted[k]
        own == CreatorCell(lines[r])
        named == {j \in BodyRows : j < r /\ CreatorCell(lines[j]) # ""}
    IN IF own # ""
       THEN mods[k].creator = own
       ELSE named # {} => mods[k].creator = CreatorCell(lines[Greatest(named)])

\* C8: a row with fewer than 5 cells produces no record, and the returned
\* records are exactly one per row of the table body with at least 5 cells, in
\* table order (none for a table without data rows).
C8_OneRecordPerFullRow ==
  ppc = "returned" =>
    LET full == {j \in BodyRows : Len(RowCells(lines[j])) >= 5}
    IN /\ Len(mods) = Len(emitted)
       /\ {emitted[k] : k \in 1..Len(emitted)} = full
       /\ \A k \in 1..(Len(emitted) - 1) : emitted[k] < emitted[k + 1]

-----------------------------------------------------------------------------
\* The index of the first line after the header that is not empty and does not
\* start with "|".
TerminatingLine ==
  LET others == {i \in (HeaderAt + 1)..Len(lines) :
                   trim(lines[i]) # "" /\ ~isPipeLine(lines[i])}
  IN IF others = {} THEN Len(lines) + 1 ELSE Least(others)

\* C20: the records come from the rows of five cells or more between the first
\* header line and the first later line that is neither empty nor a "|" line: an
\* empty line in between ends nothing, and no line after that line gives one.
C20_BodyEndsAtNonEmptyNonPipeLine ==
  ppc = "returned" =>
    LET body == IF HeaderAt = 0 THEN {}
                ELSE {j \in (HeaderAt + 1)..(TerminatingLine - 1) :
                        isRowLine(lines[j]) /\ Len(Cells(lines[j])) >= 5}
    IN {emitted[k] : k \in 1..Len(emitted)} = body

-----------------------------------------------------------------------------
\* C21: a row of the table without a closing "|" whose text shows five cells or
\* more is emitted, with its fifth cell as the record's last-changed value.
C21_LastCellWithoutClosingPipeKept ==
  ppc = "returned" =>
    \A j \in BodyRows :
      LET pieces == split(lines[j], {"|"})
          shown == RowCells(lines[j])
      IN (trim(pieces[Len(pieces)]) # "" /\ Len(shown) >= 5) =>
           \E k \in 1..Len(emitted) :
             /\ emitted[k] = j
             /\ mods[k].lastChanged = (IF shown[5] = "" THEN None ELSE shown[5])

-----------------------------------------------------------------------------
\* C28: a record whose row has an empty creator cell has the creator cell of the
\* last row before it that was emitted with a non-empty creator cell (the empty
\* string when there is none), whatever the creator cells of the rows dropped in
\* between; and lastCreator is at every line that same cell of the rows emitted
\* so far, so that a dropped row leaves it as it was.
C28_CreatorOfLastEmittedNamedRow ==
  /\ \A k \in 1..Len(mods) :
       LET named == {m \in 1..(k - 1) : CreatorCell(lines[emitted[m]]) # ""}
       IN CreatorCell(lines[emitted[k]]) = "" =>
            mods[k].creator = (IF named = {} THEN ""
                               ELSE CreatorCell(lines[emitted[Greatest(named)]]))
  /\ LET named == {emitted[m] : m \in 1..Len(emitted)}
         lastNamed == {r \in named : CreatorCell(lines[r]) # ""}
     IN lastCreator = (IF lastNamed = {} THEN ""
                       ELSE CreatorCell(lines[Greatest(lastNamed)]))

\* A row with four cells and the creator cell bob was dropped between the row
\* of ann and a row with an empty creator cell, which has the creator ann.
C28_Witness ==
  /\ ppc = "returned"
  /\ Len(lines) = 4
  /\ isHeader(lines[1])
  /\ lines[3] = "| bob | [Short](./bob/short) | d | V0.1 |"
  /\ emitted = <<2, 4>>
  /\ CreatorCell(lines[4]) = ""
  /\ mods[1].creator = "ann"
  /\ mods[2].creator = "ann"

-----------------------------------------------------------------------------
(* Claims about buildCompatibility *)

\* The comma/slash-separated, trimmed tokens of a cell: for each stretch of the
\* cell between two separators (or an end of the cell), the text from its
\* first to its last character that is not white space.
TokensOfCell(c) ==
  LET breaks == {0, Len(c) + 1} \cup {i \in 1..Len(c) : CharAt(c, i) \in {",", "/"}}
      token(b) ==
        LET e == Least({x \in breaks : x > b})
            solid == {i \in (b + 1)..(e - 1) : ~IsSpace(CharAt(c, i))}
        IN IF solid = {} THEN "" ELSE SubSeq(c, Least(solid), Greatest(solid))
  IN {token(b) : b \in breaks \ {Len(c) + 1}} \ {""}

FamilyKeys == {"v0", "v0_1", "v1_8", "v2_4", "trident"}

\* The synonyms the specification lists for three of the families.
ListedSynonyms ==
  [v0      |-> {"V0", "V0.0", "V0.1", "V0.2", "V0.2r1"},
   v0_1    |-> {"V0.1"},
   trident |-> {"VT", "Trident", "Voron Trident"}]

\* C9: for every cell and each of the five families, the flag is supported if
\* and only if at least one comma/slash-separated, trimmed token of the cell
\* equals one of the family's synonyms exactly, and unsupported otherwise; a
\* cell with the token "V0.1" marks both v0 and v0_1 supported.
C9_SupportedIffTokenIsSynonym ==
  cpc = "returned" =>
    LET tokens == TokensOfCell(cell)
    IN /\ \A key \in FamilyKeys :
            compatibility[key] =
              IF tokens \cap PRINTER_SYNONYMS[key] # {} THEN Supported ELSE Unsupported
       /\ \A key \in DOMAIN ListedSynonyms :
            compatibility[key] = Supported <=> tokens \cap ListedSynonyms[key] # {}
       /\ "V0.1" \in tokens =>
            compatibility.v0 = Supported /\ compatibility.v0_1 = Supported

\* A cell with the tokens "V0.1" and "Trident" (and a lower-case one, or one
\* that is no synonym) has been flagged: v0, v0_1 and trident only.
C9_Witness ==
  /\ cpc = "returned"
  /\ {"V0.1", "Trident"} \subseteq TokensOfCell(cell)
  /\ compatibility = [v0 |-> Supported, v0_1 |-> Supported, v1_8 |-> Unsupported,
                      v2_4 |-> Unsupported, trident |-> Supported]

\* C10: buildCompatibility never yields the unknown flag: the result has exactly
\* one value per family, supported or unsupported, and a cell with no
\* recognized token yields unsupported for all five families.
C10_NeverUnknown ==
  cpc = "returned" =>
    /\ DOMAIN compatibility = FamilyKeys
    /\ \A key \in FamilyKeys : compatibility[key] \in {Supported, Unsupported}
    /\ (\A key \in FamilyKeys : TokensOfCell(cell) \cap PRINTER_SYNONYMS[key] = {}) =>
         \A key \in FamilyKeys : compatibility[key] = Unsupported

\* A cell of two tokens, none a synonym (one only by its case), came out with
\* all five families unsupported.
C10_Witness ==
  /\ cpc = "returned"
  /\ TokensOfCell(cell) = {"Mini", "v0.1"}
  /\ \A key \in FamilyKeys : compatibility[key] = Unsupported

-----------------------------------------------------------------------------
(* Claims about extractLink *)

\* The places of the link pattern in a cell: "[" at i, the first "]" after it at
\* j, "(" right after, the first ")" after that at k, text and target not empty.
LinksIn(c) ==
  { m \in (1..Len(c)) \X (1..Len(c)) \X (1..Len(c)) :
      /\ m[1] + 1 < m[2] /\ m[2] + 2 < m[3]
      /\ CharAt(c, m[1]) = "[" /\ CharAt(c, m[2]) = "]"
      /\ CharAt(c, m[2] + 1) = "(" /\ CharAt(c, m[3]) = ")"
      /\ \A x \in (m[1] + 1)..(m[2] - 1) : CharAt(c, x) # "]"
      /\ \A x \in (m[2] + 2)..(m[3] - 1) : CharAt(c, x) # ")" }

\* The target of the first link of a cell, without a leading "./".
FirstTarget(c) ==
  LET m == CHOOSE m \in LinksIn(c) : \A n \in LinksIn(c) : m[1] <= n[1]
      target == SubSeq(c, m[2] + 2, m[3] - 1)
  IN IF Len(target) >= 2 /\ SubSeq(target, 1, 2) = "./"
     THEN SubSeq(target, 3, Len(target)) ELSE target

\* An absolute http or https URL (the scheme in any case).
IsHttpUrl(s) ==
  \E scheme \in {"http://", "https://"} :
    /\ Len(s) >= Len(scheme)
    /\ toLowerCase(SubSeq(s, 1, Len(scheme))) = scheme

\* C12: a title cell with a link whose target, without a leading "./", is an
\* absolute http(s) URL yields that target as link and no sourcePath; any other
\* target yields the target as sourcePath and base URL + "/" + target as link; a
\* cell without the link pattern yields the whole cell as title, the catalog
\* root as link and no sourcePath.
C12_LinkOfTitleCell ==
  lpc = "returned" =>
    IF LinksIn(titleCell) = {}
    THEN linkResult = [title |-> titleCell, link |-> MOD_BASE_URL, sourcePath |-> None]
    ELSE IF IsHttpUrl(FirstTarget(titleCell))
    THEN linkResult.link = FirstTarget(titleCell) /\ linkResult.sourcePath = None
    ELSE /\ linkResult.sourcePath = FirstTarget(titleCell)
         /\ linkResult.link = MOD_BASE_URL \o "/" \o FirstTarget(titleCell)

\* A cell whose link target only begins like a URL ("httpx://a") came out as a
\* path of the repository.
C12_Witness ==
  /\ lpc = "returned"
  /\ titleCell = "NEW [Cool Mod](httpx://a)"
  /\ linkResult.sourcePath = "httpx://a"
  /\ linkResult.title = "Cool Mod"

-----------------------------------------------------------------------------
(* Claims about extractFirstImage *)

\* What each line of a README shows: the syntax of its image and the URL the
\* image resolves to for the mod ann/cool (None: not an image file).
Shown(line) ==
  CASE line = "![a](img/a.png)" ->
         [syntax |-> "markdown",
          url |-> "https://raw.githubusercontent.com/VoronDesign/VoronUsers/master/printer_mods/ann/cool/img/a.png"]
    [] line = "![b](doc.txt)" -> [syntax |-> "markdown", url |-> None]
    [] line = "![c](./c.gif \"t\")" ->
         [syntax |-> "markdown",
          url |-> "https://raw.githubusercontent.com/VoronDesign/VoronUsers/master/printer_mods/ann/cool/c.gif"]
    [] line = "![d](../d.PNG?raw=true)" ->
         [syntax |-> "markdown",
          url |-> "https://raw.githubusercontent.com/VoronDesign/VoronUsers/master/printer_mods/ann/d.PNG?raw=true"]
    [] line = "<img src=\"https://e.org/h.jpg\">" ->
         [syntax |-> "html", url |-> "https://e.org/h.jpg"]
    [] line = "<IMG alt='x' SRC='h.pdf'>" -> [syntax |-> "html", url |-> None]
    [] line = "<img width=\"9\" src='//e.org/p.webp'/>" ->
         [syntax |-> "html", url |-> "https://e.org/p.webp"]
    [] OTHER -> [syntax |-> "none", url |-> None]

\* The valid candidates of one syntax, in document order.
ValidCandidates(syntax) ==
  LET shown == [i \in 1..Len(split(markdown, {"\n"})) |-> Shown(split(markdown, {"\n"})[i])]
      valid == SelectSeq(shown, LAMBDA c : c.syntax = syntax /\ c.url # None)
  IN [i \in 1..Len(valid) |-> valid[i].url]

\* C22: the result is the first valid candidate, the markdown images taken in
\* document order before the HTML images in document order, and it is none
\* only when neither syntax has a valid candidate.
C22_FirstValidCandidateMarkdownFirst ==
  ipc = "returned" =>
    LET ordered == ValidCandidates("markdown") \o ValidCandidates("html")
    IN firstImage = (IF ordered = <<>> THEN None ELSE ordered[1])

\* An invalid markdown image and a valid HTML image come before the valid
\* markdown image that is the result.
C22_Witness ==
  /\ ipc = "returned"
  /\ markdown = joinWith(<<"![b](doc.txt)", "<img src=\"https://e.org/h.jpg\">",
                           "![c](./c.gif \"t\")">>, "\n")
  /\ firstImage # None
  /\ endsWith(firstImage, "/printer_mods/ann/cool/c.gif")

-----------------------------------------------------------------------------
(* Claims about getStaticProps *)

\* mods.json is missing, unreadable or not valid JSON: there is no file, the
\* file cannot be read, or its text is empty, cut short or not JSON at all.
Unusable(file) ==
  \/ file.kind \in {"missing", "unreadable"}
  \/ file.raw \in {"", "{\"mods\":[{\"title\":\"Alp", "Some text."}

\* C29: when mods.json is missing, unreadable or not valid JSON, getStaticProps
\* does not throw, and what it returns is an empty list of mods with the time at
\* which it ran as lastUpdated.
C29_UnusableFileGivesEmptyProps ==
  Unusable(modsFile) =>
    /\ gpc # "threw"
    /\ gpc = "returned" =>
         /\ props.mods = <<>>
         /\ props.lastUpdated = calledAt
         /\ props.lastUpdated <= clock

\* The call has returned for a file whose text is cut short, after time passed.
C29_Witness ==
  /\ gpc = "returned"
  /\ modsFile = [kind |-> "file", raw |-> "{\"mods\":[{\"title\":\"Alp"]
  /\ calledAt = 1
  /\ clock = 2
  /\ props = [mods |-> <<>>, lastUpdated |-> 1]

-----------------------------------------------------------------------------
(* Claims about the home page *)

JoinedText(mod) == mod.title \o " " \o mod.description \o " " \o mod.creator

SelectedFamilies == {selectedPrinters[k] : k \in 1..Len(selectedPrinters)}

\* How many of the mods at the places of a set are the record r.
CountIn(seq, places, r) == Cardinality({i \in places : seq[i] = r})

\* filteredMods holds exactly the mods of the page at the given places.
MatchingSetIs(places) ==
  LET shown == filteredMods
      chosen == places
  IN /\ Len(shown) = Cardinality(chosen)
     /\ \A r \in {pageMods[i] : i \in 1..Len(pageMods)} :
          CountIn(shown, 1..Len(shown), r) = CountIn(pageMods, chosen, r)

\* C13 as stated: the matching mods are exactly those whose space-joined title,
\* description and creator contain the trimmed, lower-cased search text (all
\* when it is empty) and whose flag is supported for every selected family.
C13_MatchingSetOfJoinedText ==
  hpc = "shown" =>
    MatchingSetIs({i \in 1..Len(pageMods) :
      /\ \/ toLowerCase(trim(search)) = ""
         \/ includes(JoinedText(pageMods[i]), toLowerCase(trim(search)))
      /\ \A family \in SelectedFamilies : pageMods[i].compatibility[family] = Supported})

\* C13 amended: the same, with the joined text lower-cased before the search
\* text is looked for in it.
C13_MatchingSetOfLowerCasedText ==
  hpc = "shown" =>
    MatchingSetIs({i \in 1..Len(pageMods) :
      /\ \/ toLowerCase(trim(search)) = ""
         \/ includes(toLowerCase(JoinedText(pageMods[i])), toLowerCase(trim(search)))
      /\ \A family \in SelectedFamilies : pageMods[i].compatibility[family] = Supported})

\* A search in upper case with two families selected, one of them unknown for
\* some mods that match the text: some mods match and some do not.
C13_Witness ==
  /\ hpc = "shown"
  /\ search = "ALPHA"
  /\ selectedPrinters = <<"v0", "v0_1">>
  /\ Len(pageMods) = MaxPageMods
  /\ 0 < Len(filteredMods) /\ Len(filteredMods) < Len(pageMods)

\* The smaller of two numbers.
Smaller(a, b) == IF a < b THEN a ELSE b

\* The displayed mods are the first min(visibleCount, number of matching mods)
\* of the sorted matching mods.
DisplayedIsPrefix ==
  LET matching == filteredMods
      displayed == visibleMods
      count == Smaller(visibleCount, Len(matching))
  IN /\ Len(displayed) = count
     /\ \A i \in 1..count : displayed[i] = matching[i]

\* A step that changes the search, the sort option or the selected printers
\* leaves visibleCount at 24; any other change of visibleCount is a reset to 24
\* or Load more, which sets it to the smaller of visibleCount + 24 and the number
\* of matching mods.
ResetOrLoadMore ==
  /\ (search' # search \/ sortBy' # sortBy \/ selectedPrinters' # selectedPrinters) =>
       visibleCount' = 24
  /\ (/\ search' = search
      /\ sortBy' = sortBy
      /\ selectedPrinters' = selectedPrinters
      /\ visibleCount' # visibleCount) =>
       visibleCount' \in {24, Smaller(visibleCount + 24, Len(filteredMods))}

\* C30: in every state the displayed mods are the first min(visibleCount,
\* number of matching mods) of the sorted matching mods, and every step resets
\* visibleCount to 24 (search change, sort change, printer toggle) or sets it to
\* min(visibleCount + 24, number of matching mods) (Load more).
C30_VisibleCountResetAndCapped ==
  [](hpc = "shown" => DisplayedIsPrefix) /\ [][ResetOrLoadMore]_vars

\* Load more has brought visibleCount past 24 to the number of matching mods,
\* which is not a multiple of 24, with a printer selected.
C30_Witness ==
  /\ hpc = "shown"
  /\ selectedPrinters # <<>>
  /\ visibleCount > PAGE_SIZE
  /\ visibleCount % PAGE_SIZE # 0
  /\ visibleCount = Len(filteredMods)

====
